---- MODULE Spec2Model ----
(***************************************************************************)
(* The "Text Analysis" feature of app.py: preprocessing, the unigram       *)
(* language model trained from the reference corpus, perplexity,           *)
(* burstiness, the threshold classifier and the two word charts, together  *)
(* with the Streamlit handler that runs them in sequence.                  *)
(*                                                                         *)
(* A Python str is a sequence of one-character strings, so a word is a     *)
(* tuple of characters and a character is a one-element word.  A text is   *)
(* the sequence of words nltk.word_tokenize segments it into.  Real        *)
(* numbers are kept exactly: [num, den, root] stands for                   *)
(* (num / den) ^ (1 / root), and den = 0 for float('inf').                 *)
(***************************************************************************)
EXTENDS Integers, Sequences, FiniteSets, TLC

VARIABLES text, pc, model, perplexity, burstiness_score, generated_cue,
          out, exc, trainings, requests

vars == <<text, pc, model, perplexity, burstiness_score, generated_cue,
          out, exc, trainings, requests>>

(***************************************************************************)
(* Bounds of the model.                                                    *)
(***************************************************************************)
\* longest text typed into the text area, in words
MaxLen == 3
\* Analyze requests with a non-empty text in one process
MaxRequests == 2
\* longest text of the exhaustive family of the frequency analysis
MaxFree == 4
\* most distinct words of a patterned text of the frequency analysis
NDistinct == 12
\* most extra copies of one word appended to a patterned text
MaxExtra == 2
\* half-width of the window of classifier inputs around each threshold
Spread == 2
\* largest denominator of a classifier input
MaxDen == 2

(***************************************************************************)
(* Program constants.                                                      *)
(***************************************************************************)
ORDER == 1
TopN == 10
RepeatedN == 10
PerplexityThreshold == 100
BurstinessThreshold == 1

(***************************************************************************)
(* Numbers.                                                                *)
(***************************************************************************)
Min(a, b) == IF a < b THEN a ELSE b

RECURSIVE Gcd(_, _)
Gcd(a, b) == IF b = 0 THEN a ELSE Gcd(b, a % b)

Rat(n, d) ==
    LET g == Gcd(n, d)
    IN  [num |-> n \div g, den |-> d \div g, root |-> 1]

Inf == [num |-> 1, den |-> 0, root |-> 1]

\* a local that has not been assigned
Unset == [num |-> 0, den |-> 0, root |-> 0]

\* x < c for a float x >= 0 and an integer literal c; inf < c is False
LessThan(x, c) == x.den # 0 /\ x.num < (c ^ x.root) * x.den

LessOrEqual(x, c) == x.den # 0 /\ x.num <= (c ^ x.root) * x.den

(***************************************************************************)
(* Sequences.                                                              *)
(***************************************************************************)
Rep(s, k) == [i \in 1..(k * Len(s)) |-> s[((i - 1) % Len(s)) + 1]]

RECURSIVE Flatten(_)
Flatten(ss) == IF ss = <<>> THEN <<>> ELSE Head(ss) \o Flatten(Tail(ss))

RECURSIVE SumCounts(_)
SumCounts(fd) == IF fd = <<>> THEN 0 ELSE Head(fd)[2] + SumCounts(Tail(fd))

\* token in s, for a str s: the substring test
IsSubstring(token, s) ==
    \E i \in 0..(Len(s) - Len(token)) : SubSeq(s, i + 1, i + Len(token)) = token

(***************************************************************************)
(* preprocess_text                                                         *)
(***************************************************************************)
\* str.lower on the characters of the model's alphabet
Lower(c) == CASE c = "T" -> "t" [] c = "D" -> "d" [] c = "B" -> "b" [] OTHER -> c

LowerWord(w) == [i \in DOMAIN w |-> Lower(w[i])]

\* nltk.word_tokenize(text.lower()): the text is held already segmented
word_tokenize_lower(t) == [i \in DOMAIN t |-> LowerWord(t[i])]

\* stopwords.words('english'), the entries over the model's alphabet
stop_words == { <<"t", "h", "e">>, <<"i", "s">>, <<"a">> }

\* the grave accent character, which a string of this module cannot hold
Grave == "grave"

\* string.punctuation
punctuation ==
    << "!", "\"", "#", "$", "%", "&", "'", "(", ")", "*", "+", ",", "-", ".",
       "/", ":", ";", "<", "=", ">", "?", "@", "[", "\\", "]", "^", "_", Grave,
       "{", "|", "}", "~" >>

KeepToken(token) == token \notin stop_words /\ ~IsSubstring(token, punctuation)

preprocess_text(t) == SelectSeq(word_tokenize_lower(t), KeepToken)

(***************************************************************************)
(* nltk.FreqDist / collections.Counter: <<sample, count>> pairs in the     *)
(* order the samples were first seen.                                      *)
(***************************************************************************)
RECURSIVE FreqDist(_)
FreqDist(samples) ==
    IF samples = <<>> THEN <<>>
    ELSE LET n == Len(samples)
             prev == FreqDist(SubSeq(samples, 1, n - 1))
             w == samples[n]
             at == {i \in DOMAIN prev : prev[i][1] = w}
         IN  IF at = {} THEN Append(prev, <<w, 1>>)
             ELSE [i \in DOMAIN prev |->
                      IF i \in at THEN <<w, prev[i][2] + 1>> ELSE prev[i]]

\* word_freq[word]; a Counter answers 0 for a missing key
CountOf(fd, w) ==
    LET at == {i \in DOMAIN fd : fd[i][1] = w}
    IN  IF at = {} THEN 0 ELSE fd[CHOOSE i \in at : TRUE][2]

\* sorted(items, key=count, reverse=True): a stable sort, built by insertion
InsertByCount(sorted, item) ==
    LET k == Cardinality({i \in DOMAIN sorted : sorted[i][2] >= item[2]})
    IN  SubSeq(sorted, 1, k) \o <<item>> \o SubSeq(sorted, k + 1, Len(sorted))

RECURSIVE SortByCount(_)
SortByCount(fd) ==
    IF fd = <<>> THEN <<>>
    ELSE InsertByCount(SortByCount(SubSeq(fd, 1, Len(fd) - 1)), fd[Len(fd)])

\* the same sort with equal counts put before the earlier ones
InsertBeforeEqual(sorted, item) ==
    LET k == Cardinality({i \in DOMAIN sorted : sorted[i][2] > item[2]})
    IN  SubSeq(sorted, 1, k) \o <<item>> \o SubSeq(sorted, k + 1, Len(sorted))

RECURSIVE SortByCountUnstable(_)
SortByCountUnstable(fd) ==
    IF fd = <<>> THEN <<>>
    ELSE InsertBeforeEqual(SortByCountUnstable(SubSeq(fd, 1, Len(fd) - 1)),
                           fd[Len(fd)])

most_common_unstable(fd, n) ==
    LET s == SortByCountUnstable(fd) IN SubSeq(s, 1, Min(n, Len(s)))

\* FreqDist.most_common(n)
most_common(fd, n) ==
    LET s == SortByCount(fd) IN SubSeq(s, 1, Min(n, Len(s)))

\* plot_most_common_words, line 46: the pairs the chart is drawn from
most_common_words(t) == most_common(FreqDist(preprocess_text(t)), TopN)

repeated_pairs_unit(t) ==
    LET word_freq == FreqDist(preprocess_text(t))
        kept == SelectSeq(word_freq, LAMBDA p : p[2] >= 1)
    IN  SubSeq(kept, 1, Min(RepeatedN, Len(kept)))

\* plot_repeated_words, lines 62 and 64: the repeated words, each with its count
repeated_pairs(t) ==
    LET word_freq == FreqDist(preprocess_text(t))
        kept == SelectSeq(word_freq, LAMBDA p : p[2] > 1)
        repeated_words == [i \in 1..Min(RepeatedN, Len(kept)) |-> kept[i][1]]
    IN  [i \in DOMAIN repeated_words |->
            <<repeated_words[i], CountOf(word_freq, repeated_words[i])>>]

(***************************************************************************)
(* calculate_burstiness                                                    *)
(***************************************************************************)
RECURSIVE SumSquaredDeviations(_, _, _)
\* sum((freq - avg_freq) ** 2 ...) with avg_freq = s / k, times k ** 2
SumSquaredDeviations(fd, s, k) ==
    IF fd = <<>> THEN 0
    ELSE (Head(fd)[2] * k - s) * (Head(fd)[2] * k - s)
         + SumSquaredDeviations(Tail(fd), s, k)

burstiness_no_square(t) ==
    LET word_freq == FreqDist(preprocess_text(t))
        k == Len(word_freq)
        s == SumCounts(word_freq)
        variance == Rat(SumSquaredDeviations(word_freq, s, k), k * k * k)
    IN  Rat(variance.num * k, variance.den * s)

\* lines 85-90, for a word_freq that is not empty
calculate_burstiness(t) ==
    LET word_freq == FreqDist(preprocess_text(t))
        k == Len(word_freq)
        s == SumCounts(word_freq)
        \* avg_freq = s / k; variance = sum(...) / k
        variance == Rat(SumSquaredDeviations(word_freq, s, k), k * k * k)
    IN  \* variance / avg_freq ** 2
        Rat(variance.num * k * k, variance.den * s * s)

(***************************************************************************)
(* The reference corpus and the language model.                            *)
(***************************************************************************)
BOS == <<"<", "s", ">">>
EOS == <<"<", "/", "s", ">">>
UNK == <<"<", "U", "N", "K", ">">>

\* nltk.corpus.brown.words(): a flat list of words
brown_words == << <<"T", "h", "e">>, <<"d", "o", "g">>, <<"b", "o", "x">> >>

\* iterating a str yields its characters, each a str
Characters(w) == [i \in DOMAIN w |-> <<w[i]>>]

\* pad_both_ends(sent, n): n - 1 markers on each side
pad_both_ends(sent, n) ==
    [i \in 1..(n - 1) |-> BOS] \o Characters(sent) \o [i \in 1..(n - 1) |-> EOS]

\* Vocabulary.lookup with unk_cutoff = 1
lookup(vocab, w) == IF CountOf(vocab, w) >= 1 \/ w = UNK THEN w ELSE UNK

\* padded_everygram_pipeline(n, tokens), then MLE(n).fit: each element of
\* tokens is taken as one sentence
fit(n, tokens) ==
    LET padded == [i \in DOMAIN tokens |-> pad_both_ends(tokens[i], n)]
        vocab == FreqDist(Flatten(padded))
        train == Flatten(padded)
    IN  [order |-> n,
         vocab |-> vocab,
         unigrams |-> FreqDist([i \in DOMAIN train |-> lookup(vocab, train[i])])]

NoModel == [order |-> 0, vocab |-> <<>>, unigrams |-> <<>>]

\* MLE.score of a unigram: FreqDist.freq of the looked-up word
score(m, w) ==
    LET total == SumCounts(m.unigrams)
    IN  IF total = 0 THEN Rat(0, 1)
        ELSE Rat(CountOf(m.unigrams, lookup(m.vocab, w)), total)

RECURSIVE ProductNum(_)
ProductNum(scores) ==
    IF scores = <<>> THEN 1 ELSE Head(scores).num * ProductNum(Tail(scores))

RECURSIVE ProductDen(_)
ProductDen(scores) ==
    IF scores = <<>> THEN 1 ELSE Head(scores).den * ProductDen(Tail(scores))

\* model.perplexity: 2 ** -mean(log2 score); log2 0 is -inf
model_perplexity(m, ngrams_sequence) ==
    LET scores == [i \in DOMAIN ngrams_sequence |-> score(m, ngrams_sequence[i])]
    IN  IF \E i \in DOMAIN scores : scores[i].num = 0 THEN Inf
        ELSE [num |-> ProductDen(scores), den |-> ProductNum(scores),
              root |-> Len(scores)]

\* lines 76-79, for a model of order 1
calculate_perplexity(t, m) ==
    LET tokens == preprocess_text(t)
        padded_tokens == <<BOS>> \o tokens \o <<EOS>>
    IN  model_perplexity(m, padded_tokens)

(***************************************************************************)
(* is_generated_text                                                       *)
(***************************************************************************)
Likely == "Likely generated by a language model"
NotLikely == "Not likely generated by a language model"
NoLabel == ""

is_generated_text_inclusive(p, b) ==
    IF LessOrEqual(p, PerplexityThreshold) /\ LessOrEqual(b, BurstinessThreshold)
    THEN Likely ELSE NotLikely

is_generated_text(p, b) ==
    IF LessThan(p, PerplexityThreshold) /\ LessThan(b, BurstinessThreshold)
    THEN Likely ELSE NotLikely

(***************************************************************************)
(* The texts.                                                              *)
(***************************************************************************)
\* the words typed into the text area
Lexicon ==
    { <<"T", "h", "e">>, <<"D", "o", "g">>, <<"d", "o", "g">>, <<"x">>,
      <<".", ".", ".">>, <<",">>, <<Grave, Grave>> }

FreeLexicon == { <<"d", "o", "g">>, <<"c", "a", "t">>, <<"t", "h", "e">> }

FreeTexts == UNION { [1..n -> FreeLexicon] : n \in 0..MaxFree }

WordList ==
    << "b", "c", "e", "f", "g", "h", "j", "k", "l", "n", "p", "q", "r", "u",
       "v", "w" >>

Word(k) == <<WordList[k]>>

\* n distinct words said base times round, then extra more copies of one
PatternText(n, base, hot, extra, rev) ==
    LET round == [i \in 1..n |-> IF rev THEN Word(n + 1 - i) ELSE Word(i)]
    IN  Rep(round, base) \o (IF hot = 0 THEN <<>> ELSE [j \in 1..extra |-> Word(hot)])

PatternTexts ==
    UNION { { PatternText(n, base, hot, extra, rev) :
                base \in 1..2, hot \in 0..n, extra \in 1..MaxExtra, rev \in BOOLEAN }
            : n \in 1..NDistinct }

FreqTexts == FreeTexts \cup PatternTexts

PerplexityInputs ==
    UNION { { [num |-> n, den |-> d, root |-> r] :
                n \in ((PerplexityThreshold ^ r) * d - Spread)
                         ..((PerplexityThreshold ^ r) * d + Spread) }
            : d \in 1..MaxDen, r \in 1..2 }

BurstinessInputs ==
    UNION { { [num |-> n, den |-> d, root |-> 1] : n \in 0..(d + Spread) }
            : d \in 1..MaxDen }

(***************************************************************************)
(* main, the "Text Analysis" branch: one Streamlit run of the script per   *)
(* interaction.                                                            *)
(***************************************************************************)
AtRest == pc \in {"idle", "warned", "done", "error"}

\* a run of the script starts from an empty page and unassigned locals
Rerun ==
    /\ model' = NoModel
    /\ perplexity' = Unset
    /\ burstiness_score' = Unset
    /\ generated_cue' = NoLabel
    /\ exc' = "none"

Init ==
    /\ text = <<>>
    /\ pc = "idle"
    /\ model = NoModel
    /\ perplexity = Unset
    /\ burstiness_score = Unset
    /\ generated_cue = NoLabel
    /\ out = <<>>
    /\ exc = "none"
    /\ trainings = 0
    /\ requests = 0

\* the user edits the text area: the script runs with the button not pressed
Type(w) ==
    /\ AtRest
    /\ Len(text) < MaxLen
    /\ text' = Append(text, w)
    /\ pc' = "idle"
    /\ out' = <<>>
    /\ Rerun
    /\ UNCHANGED <<trainings, requests>>

ClearText ==
    /\ AtRest
    /\ text # <<>>
    /\ text' = <<>>
    /\ pc' = "idle"
    /\ out' = <<>>
    /\ Rerun
    /\ UNCHANGED <<trainings, requests>>

\* st.button("Analyze") pressed; if text: ... else: st.warning(...)
ClickAnalyze ==
    /\ AtRest
    /\ requests < MaxRequests
    /\ Rerun
    /\ IF text # <<>>
       THEN /\ pc' = "train"
            /\ out' = <<>>
            /\ requests' = requests + 1
       ELSE /\ pc' = "warned"
            /\ out' = << [label |-> "Please enter some text to analyze."] >>
            /\ requests' = requests
    /\ UNCHANGED <<text, trainings>>

TrainCached ==
    /\ pc = "train"
    /\ model' = fit(ORDER, brown_words)
    /\ trainings' = IF trainings = 0 THEN 1 ELSE trainings
    /\ pc' = "perplexity"
    /\ UNCHANGED <<text, perplexity, burstiness_score, generated_cue, out, exc,
                   requests>>

\* lines 155-158
Train ==
    /\ pc = "train"
    /\ model' = fit(ORDER, brown_words)
    /\ trainings' = trainings + 1
    /\ pc' = "perplexity"
    /\ UNCHANGED <<text, perplexity, burstiness_score, generated_cue, out, exc,
                   requests>>

\* lines 161-162
Perplexity ==
    /\ pc = "perplexity"
    /\ perplexity' = calculate_perplexity(text, model)
    /\ out' = Append(out, [label |-> "Perplexity:", number |-> perplexity'])
    /\ pc' = "burstiness"
    /\ UNCHANGED <<text, model, burstiness_score, generated_cue, exc, trainings,
                   requests>>

\* lines 165-166; line 87 divides by len(word_freq)
Burstiness ==
    /\ pc = "burstiness"
    /\ IF FreqDist(preprocess_text(text)) = <<>>
       THEN /\ exc' = "ZeroDivisionError"
            /\ pc' = "error"
            /\ UNCHANGED <<burstiness_score, out>>
       ELSE /\ burstiness_score' = calculate_burstiness(text)
            /\ out' = Append(out, [label |-> "Burstiness Score:",
                                   number |-> burstiness_score'])
            /\ pc' = "label"
            /\ exc' = exc
    /\ UNCHANGED <<text, model, perplexity, generated_cue, trainings, requests>>

\* lines 169-170
Label ==
    /\ pc = "label"
    /\ generated_cue' = is_generated_text(perplexity, burstiness_score)
    /\ out' = Append(out, [label |-> "Text Analysis Result:",
                           string |-> generated_cue'])
    /\ pc' = "common"
    /\ UNCHANGED <<text, model, perplexity, burstiness_score, exc, trainings,
                   requests>>

\* line 173; line 48 unpacks zip(*most_common_words) into two names
PlotCommon ==
    /\ pc = "common"
    /\ IF most_common_words(text) = <<>>
       THEN /\ exc' = "ValueError"
            /\ pc' = "error"
            /\ out' = out
       ELSE /\ out' = Append(out, [label |-> "Most Common Words",
                                   bars |-> most_common_words(text)])
            /\ pc' = "repeated"
            /\ exc' = exc
    /\ UNCHANGED <<text, model, perplexity, burstiness_score, generated_cue,
                   trainings, requests>>

\* line 176; line 64 unpacks zip(*[...]) into two names
PlotRepeated ==
    /\ pc = "repeated"
    /\ IF repeated_pairs(text) = <<>>
       THEN /\ exc' = "ValueError"
            /\ pc' = "error"
            /\ out' = out
       ELSE /\ out' = Append(out, [label |-> "Repeated Words",
                                   bars |-> repeated_pairs(text)])
            /\ pc' = "done"
            /\ exc' = exc
    /\ UNCHANGED <<text, model, perplexity, burstiness_score, generated_cue,
                   trainings, requests>>

Analysis ==
    \/ Train
    \/ Perplexity
    \/ Burstiness
    \/ Label
    \/ PlotCommon
    \/ PlotRepeated

Next ==
    \/ \E w \in Lexicon : Type(w)
    \/ ClearText
    \/ ClickAnalyze
    \/ Analysis

Spec == Init /\ [][Next]_vars

(***************************************************************************)
(* The frequency analysis, over texts with up to NDistinct distinct words. *)
(***************************************************************************)
InitFreq ==
    /\ text \in FreqTexts
    /\ pc = "idle"
    /\ model = NoModel
    /\ perplexity = Unset
    /\ burstiness_score = Unset
    /\ generated_cue = NoLabel
    /\ out = <<>>
    /\ exc = "none"
    /\ trainings = 0
    /\ requests = 0

NextFreq ==
    \/ ClickAnalyze
    \/ Analysis

SpecFreq == InitFreq /\ [][NextFreq]_vars

(***************************************************************************)
(* The classifier alone, over numbers on both sides of each threshold.     *)
(***************************************************************************)
InitClassify ==
    /\ text = <<>>
    /\ pc = "call"
    /\ model = NoModel
    /\ perplexity \in PerplexityInputs
    /\ burstiness_score \in BurstinessInputs
    /\ generated_cue = NoLabel
    /\ out = <<>>
    /\ exc = "none"
    /\ trainings = 0
    /\ requests = 0

CallClassifier ==
    /\ pc = "call"
    /\ generated_cue' = is_generated_text(perplexity, burstiness_score)
    /\ pc' = "returned"
    /\ UNCHANGED <<text, model, perplexity, burstiness_score, out, exc, trainings,
                   requests>>

NextClassify == CallClassifier

SpecClassify == InitClassify /\ [][NextClassify]_vars

(***************************************************************************)
(* What the claims speak of, counted directly on the token sequence.      *)
(***************************************************************************)
Tokens == preprocess_text(text)

Distinct(tokens) == {tokens[i] : i \in DOMAIN tokens}

Occurrences(tokens, w) == Cardinality({i \in DOMAIN tokens : tokens[i] = w})

FirstIndex(tokens, w) ==
    CHOOSE i \in DOMAIN tokens :
        tokens[i] = w /\ \A j \in 1..(i - 1) : tokens[j] # w

RECURSIVE SumOfSquares(_, _)
SumOfSquares(tokens, ws) ==
    IF ws = {} THEN 0
    ELSE LET w == CHOOSE x \in ws : TRUE
         IN  Occurrences(tokens, w) * Occurrences(tokens, w)
             + SumOfSquares(tokens, ws \ {w})

PunctuationOnly(token) == \A i \in DOMAIN token : \E j \in DOMAIN punctuation : token[i] = punctuation[j]

Rendered(title) == \E i \in DOMAIN out : out[i].label = title

Bars(title) == out[CHOOSE i \in DOMAIN out : out[i].label = title].bars

Defined(x) == x # Unset /\ x.den # 0

(***************************************************************************)
(* C1: for every pair of defined (perplexity, burstiness) the classifier   *)
(* returns "Likely generated by a language model" exactly when             *)
(* perplexity < 100 and burstiness < 1, and "Not likely generated by a     *)
(* language model" otherwise, also at perplexity = 100 or burstiness = 1;  *)
(* it returns no other label.                                              *)
(***************************************************************************)
C1_ClassifierThresholds ==
    pc = "returned" =>
        LET below == /\ perplexity.num < (100 ^ perplexity.root) * perplexity.den
                     /\ burstiness_score.num < burstiness_score.den
        IN  /\ generated_cue \in {Likely, NotLikely}
            /\ below => generated_cue = "Likely generated by a language model"
            /\ ~below => generated_cue = "Not likely generated by a language model"

\* the classifier has answered "Not likely" for a perplexity of exactly 100
\* and a burstiness below 1
C1_Witness ==
    /\ pc = "returned"
    /\ perplexity.num = (100 ^ perplexity.root) * perplexity.den
    /\ burstiness_score.num < burstiness_score.den
    /\ generated_cue = NotLikely

(***************************************************************************)
(* C2: for a text that is not empty the perplexity of the model trained    *)
(* from the reference corpus is greater than 0 and finite: no unigram      *)
(* queried has probability zero.                                           *)
(***************************************************************************)
C2_PerplexityPositiveFinite ==
    (text # <<>> /\ perplexity # Unset) =>
        /\ perplexity.den # 0
        /\ perplexity.num > 0

(***************************************************************************)
(* C3: when preprocessing yields no token, the analysis reports an         *)
(* explicit empty-input error and gives neither statistic a numeric value, *)
(* nor fails with an unrelated arithmetic error.                           *)
(***************************************************************************)
C3_EmptyInputReported ==
    Tokens = <<>> =>
        /\ perplexity = Unset
        /\ burstiness_score = Unset
        /\ exc \in {"none", "EmptyInputError"}
        /\ pc = "error" => exc = "EmptyInputError"

(***************************************************************************)
(* C4: no label is emitted for a text whose perplexity and burstiness are  *)
(* not both defined.                                                       *)
(***************************************************************************)
C4_NoLabelWithoutStatistics ==
    generated_cue # NoLabel => Defined(perplexity) /\ Defined(burstiness_score)

C6_NoPunctuationOnlyTokens ==
    \A i \in DOMAIN Tokens :
        /\ Tokens[i] = LowerWord(Tokens[i])
        /\ Tokens[i] \notin stop_words
        /\ ~PunctuationOnly(Tokens[i])

(***************************************************************************)
(* C7: burstiness is the population variance of the counts of the distinct *)
(* tokens divided by the square of their mean; it is never negative, and   *)
(* it is 0 exactly when all distinct tokens have the same count, so when   *)
(* every word appears once.  With k distinct tokens, S tokens in all and   *)
(* Q the sum of the squared counts, variance / mean ^ 2 is                 *)
(* (k * Q - S ^ 2) / S ^ 2.                                                *)
(***************************************************************************)
C7_Burstiness ==
    burstiness_score # Unset =>
        LET b == burstiness_score
            tokens == Tokens
            occ == [w \in Distinct(tokens) |-> Occurrences(tokens, w)]
            k == Cardinality(DOMAIN occ)
            S == Len(tokens)
            Q == SumOfSquares(tokens, DOMAIN occ)
        IN  /\ b.den > 0
            /\ b.num >= 0
            /\ b.root = 1
            /\ b.num * (S * S) = (k * Q - S * S) * b.den
            /\ b.num = 0 <=> \A v, w \in DOMAIN occ : occ[v] = occ[w]
            /\ (\A w \in DOMAIN occ : occ[w] = 1) => b.num = 0

\* the burstiness of a text with three or more distinct words of unequal
\* counts has been computed and is positive
C7_Witness ==
    /\ burstiness_score # Unset
    /\ burstiness_score.num > 0
    /\ Cardinality(Distinct(Tokens)) >= 3
    /\ \E v, w \in Distinct(Tokens) : Occurrences(Tokens, v) > Occurrences(Tokens, w)

(***************************************************************************)
(* C8: the repeated words are exactly the tokens that occur more than      *)
(* once, in the order of their first occurrence, cut to the first 10, each *)
(* with its count; no token that occurs once is among them, and one word   *)
(* said k > 1 times gives one entry with count k.                          *)
(***************************************************************************)
C8_RepeatedWords ==
    LET rp == repeated_pairs(text)
        tokens == Tokens
        occ == [w \in Distinct(tokens) |-> Occurrences(tokens, w)]
        first == [w \in Distinct(tokens) |-> FirstIndex(tokens, w)]
        repeated == {w \in DOMAIN occ : occ[w] > 1}
        listed == {rp[i][1] : i \in DOMAIN rp}
    IN  /\ Len(rp) = Min(10, Cardinality(repeated))
        /\ listed \subseteq repeated
        /\ \A i \in DOMAIN rp : rp[i][2] = occ[rp[i][1]]
        /\ \A i, j \in DOMAIN rp : i < j => first[rp[i][1]] < first[rp[j][1]]
        /\ \A w \in repeated \ listed : \A v \in listed : first[v] < first[w]
        /\ (Cardinality(DOMAIN occ) = 1 /\ Len(tokens) > 1)
               => rp = << <<tokens[1], Len(tokens)>> >>
        /\ Rendered("Repeated Words") => Bars("Repeated Words") = rp

\* the chart of repeated words has been drawn with 10 bars for a text in
\* which more than 10 words repeat
C8_Witness ==
    /\ Rendered("Repeated Words")
    /\ Len(Bars("Repeated Words")) = 10
    /\ Cardinality({w \in Distinct(Tokens) : Occurrences(Tokens, w) > 1}) > 10

(***************************************************************************)
(* C9: the top words are the min(10, number of distinct tokens) pairs of   *)
(* highest count, in order of non-increasing count, tokens of equal count  *)
(* by first occurrence; no token left out has a count above the smallest   *)
(* count listed.                                                           *)
(***************************************************************************)
C9_TopWords ==
    LET tw == most_common_words(text)
        tokens == Tokens
        occ == [w \in Distinct(tokens) |-> Occurrences(tokens, w)]
        first == [w \in Distinct(tokens) |-> FirstIndex(tokens, w)]
        listed == {tw[i][1] : i \in DOMAIN tw}
    IN  /\ Len(tw) = Min(10, Cardinality(DOMAIN occ))
        /\ listed \subseteq DOMAIN occ
        /\ Cardinality(listed) = Len(tw)
        /\ \A i \in DOMAIN tw : tw[i][2] = occ[tw[i][1]]
        /\ \A i, j \in DOMAIN tw :
               i < j =>
                   \/ tw[i][2] > tw[j][2]
                   \/ /\ tw[i][2] = tw[j][2]
                      /\ first[tw[i][1]] < first[tw[j][1]]
        /\ \A w \in (DOMAIN occ) \ listed : \A i \in DOMAIN tw : occ[w] <= tw[i][2]
        /\ Rendered("Most Common Words") => Bars("Most Common Words") = tw

\* the chart of the most common words has been drawn with 10 bars for a text
\* of more than 10 distinct words, its first bar a word that is not the first
\* of the text, and two of its bars of equal count
C9_Witness ==
    /\ Rendered("Most Common Words")
    /\ Len(Bars("Most Common Words")) = 10
    /\ Cardinality(Distinct(Tokens)) > 10
    /\ Bars("Most Common Words")[1][1] # Tokens[1]
    /\ Bars("Most Common Words")[1][2] > Bars("Most Common Words")[2][2]
    /\ Bars("Most Common Words")[2][2] = Bars("Most Common Words")[3][2]

(***************************************************************************)
(* C10: an Analyze request on a text with at least one token runs          *)
(* perplexity, burstiness, label, most-common chart and repeated chart to  *)
(* the end with no exception, also when no token occurs more than once.    *)
(***************************************************************************)
C10_AnalysisCompletes ==
    Tokens # <<>> =>
        /\ exc = "none"
        /\ pc # "error"

====
